---------------------------- MODULE Spec2Model ----------------------------
(* tui-pattern-highlighter: highlight_line / highlight_text of src/src/lib.rs *)
(* and the earlier highlight_line of src/src/highlighter.rs.                  *)
(*                                                                            *)
(* Strings are sequences of one-character strings; offsets are the 0-based    *)
(* byte offsets of the Rust code (all modelled characters are ASCII).         *)
(* A behaviour is one caller session on one text, one pattern source and one  *)
(* style: the caller compiles the pattern once (as the tests do) and then     *)
(* calls one entry point repeatedly, handing the pattern over either as a raw *)
(* string or as a reference to its precompiled Regex.                         *)
EXTENDS Integers, Sequences, FiniteSets, TLC

(* ------------------------------ bounds ---------------------------------- *)

\* Longest input text / line.
MaxLen == 4
\* Calls made in one session.
MaxCalls == 2

(* ------------------------------ inputs ---------------------------------- *)

Alphabet == {"@", "a", "\n"}

Strings(n) == UNION {[1..k -> Alphabet] : k \in 0..n}

\* Raw pattern sources:  @\w+   @\w   a*   and two that do not compile:  *   @\
Patterns ==
    { <<"@", "\\", "w", "+">>,
      <<"@", "\\", "w">>,
      <<"a", "*">>,
      <<"*">>,
      <<"@", "\\">> }

\* Style::default(), the style of Span::from(..), and one highlight colour.
Base == "Default"
Styles == {"Default", "Blue"}

Entries == {"highlight_line", "highlight_text", "highlighter"}

(* --------------------- the regex crate, as it is used -------------------- *)

WordChars == {"a", "w"}
MetaChars == {"\\", "*", "+"}

Lit(c) == [atom |-> [kind |-> "lit", ch |-> c], quant |-> "one"]
Word == [atom |-> [kind |-> "word", ch |-> ""], quant |-> "one"]

\* A repetition operator applied to an item (a** and the like collapse).
Repeat(q, c) == IF q = "star" \/ c = "*" THEN "star" ELSE "plus"

RegexErr == [ok |-> FALSE, items |-> <<>>]

RECURSIVE Parse(_, _, _)
Parse(src, i, items) ==
    IF i > Len(src) THEN [ok |-> TRUE, items |-> items]
    ELSE IF src[i] = "\\" THEN
        IF i = Len(src) THEN RegexErr
        ELSE IF src[i + 1] = "w" THEN Parse(src, i + 2, Append(items, Word))
        ELSE IF src[i + 1] \in MetaChars
            THEN Parse(src, i + 2, Append(items, Lit(src[i + 1])))
        ELSE RegexErr
    ELSE IF src[i] \in {"*", "+"} THEN
        IF items = <<>> THEN RegexErr
        ELSE Parse(src, i + 1,
                   [items EXCEPT ![Len(items)].quant = Repeat(@, src[i])])
    ELSE Parse(src, i + 1, Append(items, Lit(src[i])))

\* Regex::new: Ok(compiled) or Err.
RegexNew(src) == Parse(src, 1, <<>>)

AtomMatches(atom, c) ==
    IF atom.kind = "word" THEN c \in WordChars ELSE c = atom.ch

\* How many characters from offset i on match the atom.
RECURSIVE Run(_, _, _)
Run(atom, s, i) ==
    IF i < Len(s) /\ AtomMatches(atom, s[i + 1]) THEN 1 + Run(atom, s, i + 1)
    ELSE 0

\* End offset of the match of items[k..] anchored at offset i, or -1:
\* greedy repetition, backing off one character at a time.
RECURSIVE MatchItems(_, _, _, _)
RECURSIVE Greedy(_, _, _, _, _, _)
MatchItems(items, k, s, i) ==
    IF k > Len(items) THEN i
    ELSE IF items[k].quant = "one" THEN
        IF i < Len(s) /\ AtomMatches(items[k].atom, s[i + 1])
        THEN MatchItems(items, k + 1, s, i + 1)
        ELSE -1
    ELSE Greedy(items, k, s, i, Run(items[k].atom, s, i),
                IF items[k].quant = "plus" THEN 1 ELSE 0)

Greedy(items, k, s, i, c, least) ==
    IF c < least THEN -1
    ELSE LET e == MatchItems(items, k + 1, s, i + c)
         IN IF e # -1 THEN e ELSE Greedy(items, k, s, i, c - 1, least)

NoMatch == <<-1, -1>>

\* The leftmost match starting at offset `at` or later: <<start, end>>.
RECURSIVE FindAt(_, _, _)
FindAt(re, s, at) ==
    IF at > Len(s) THEN NoMatch
    ELSE LET e == MatchItems(re, 1, s, at)
         IN IF e # -1 THEN <<at, e>> ELSE FindAt(re, s, at + 1)

\* Regex::find_iter: successive non-overlapping matches. The search resumes at
\* the end of the last match; an empty match at the end of the last match is
\* not reported, the search moving one character on instead.
RECURSIVE Iter(_, _, _, _)
Iter(re, s, at, last_match_end) ==
    LET m == FindAt(re, s, at)
        m2 == IF m # NoMatch /\ m[1] = m[2] /\ m[2] = last_match_end
              THEN FindAt(re, s, at + 1)
              ELSE m
    IN IF m2 = NoMatch THEN <<>>
       ELSE <<m2>> \o Iter(re, s, m2[2], m2[2])

find_iter(re, s) == Iter(re, s, 0, -1)

(* ------------------------------ helpers --------------------------------- *)

\* s[a..b]
Slice(s, a, b) == SubSeq(s, a + 1, b)

\* Span::from(content).style(style)
Span(content, style) == [content |-> content, style |-> style]

\* text.match_indices('\n'): the offsets of the newline characters, ascending.
RECURSIVE match_indices(_, _)
match_indices(s, at) ==
    IF at >= Len(s) THEN <<>>
    ELSE IF s[at + 1] = "\n" THEN <<at>> \o match_indices(s, at + 1)
    ELSE match_indices(s, at + 1)

(* ------------------------------- state ---------------------------------- *)

VARIABLES
    entry,              \* the entry point this session calls
    text,               \* its `line` / `text` argument
    source,             \* the pattern's source string
    regex,              \* the caller's Regex::new(source), as in the tests
    highlight_style,    \* its `highlight_style` argument
    pattern,            \* the `pattern` argument of the current call
    pc,                 \* position of the current call
    regex_ref,          \* the compiled pattern the scan uses
    matches,            \* the matches the loop iterates over
    mi,                 \* index in `matches` of the next match
    last_index,         \* the cursor
    highlighted_line,   \* the Line under construction
    highlighted_text,   \* the Text under construction
    ni,                 \* index of the next newline of highlight_text's loop
    compilations,       \* Regex::new calls made by the current call
    calls,              \* calls started in this session
    prev                \* form and result of the previous completed call

vars == <<entry, text, source, regex, highlight_style, pattern, pc, regex_ref,
          matches, mi, last_index, highlighted_line, highlighted_text, ni,
          compilations, calls, prev>>

session == <<entry, text, source, regex, highlight_style>>

NoRegex == [ok |-> FALSE, items |-> <<>>]
NoPattern == [form |-> "none", src |-> <<>>, re |-> <<>>]
NoPrev == [form |-> "none", line |-> <<>>, text |-> <<>>]

(* ------------------------- src/src/lib.rs -------------------------------- *)

\* Variant of into_regex_ref: the raw string is compiled as a literal
\* (Regex::new(&regex::escape(..))).
IntoRegexRefEscaped(p) ==
    IF p.form = "str"
    THEN [ok |-> TRUE, items |-> [k \in 1..Len(p.src) |-> Lit(p.src[k])]]
    ELSE [ok |-> TRUE, items |-> p.re]

\* Variant of into_regex_ref: a compile error is swallowed (unwrap_or of the
\* empty pattern) instead of panicking.
IntoRegexRefLenient(p) ==
    IF p.form = "str"
    THEN [ok |-> TRUE, items |-> RegexNew(p.src).items]
    ELSE [ok |-> TRUE, items |-> p.re]

\* IntoRegexRef::into_regex_ref: the raw-string impls compile and unwrap (ok is
\* FALSE where unwrap panics), the Regex impls hand over the compiled pattern.
into_regex_ref(p) ==
    IF p.form = "str" THEN RegexNew(p.src) ELSE [ok |-> TRUE, items |-> p.re]

\* Regex::new calls one into_regex_ref makes.
Compiles(p) == IF p.form = "str" THEN 1 ELSE 0

Start == [line |-> <<>>, last_index |-> 0]

\* Variant of ScanMatch: the cursor advances to m.end() + 1, as in
\* highlighter.rs.
ScanMatchSkip(acc, m, line_string, style) ==
    [line |-> (IF m[1] > acc.last_index
               THEN Append(acc.line, Span(Slice(line_string, acc.last_index, m[1]), Base))
               ELSE acc.line)
              \o <<Span(Slice(line_string, m[1], m[2]), style)>>,
     last_index |-> m[2] + 1]

\* Variant of ScanMatch: the gap carries the highlight style, as in
\* highlighter.rs.
ScanMatchStyledGap(acc, m, line_string, style) ==
    [line |-> (IF m[1] > acc.last_index
               THEN Append(acc.line, Span(Slice(line_string, acc.last_index, m[1]), style))
               ELSE acc.line)
              \o <<Span(Slice(line_string, m[1], m[2]), style)>>,
     last_index |-> m[2]]

\* Variant of ScanMatch: the gap is pushed without the m.start() > last_index
\* guard.
ScanMatchNoGuard(acc, m, line_string, style) ==
    [line |-> Append(acc.line, Span(Slice(line_string, acc.last_index, m[1]), Base))
              \o <<Span(Slice(line_string, m[1], m[2]), style)>>,
     last_index |-> m[2]]

\* The body of highlight_line's loop for one match m.
ScanMatch(acc, m, line_string, style) ==
    [line |-> (IF m[1] > acc.last_index
               THEN Append(acc.line, Span(Slice(line_string, acc.last_index, m[1]), Base))
               ELSE acc.line)
              \o <<Span(Slice(line_string, m[1], m[2]), style)>>,
     last_index |-> m[2]]

\* Variant of ScanTail: the tail is pushed without the length guard.
ScanTailAlways(acc, line_string) ==
    Append(acc.line, Span(Slice(line_string, acc.last_index, Len(line_string)), Base))

\* What follows the loop: the rest of the line, if any.
ScanTail(acc, line_string) ==
    IF Len(line_string) > acc.last_index
    THEN Append(acc.line, Span(Slice(line_string, acc.last_index, Len(line_string)), Base))
    ELSE acc.line

RECURSIVE Scan(_, _, _, _, _)
Scan(acc, ms, k, line_string, style) ==
    IF k > Len(ms) THEN acc
    ELSE Scan(ScanMatch(acc, ms[k], line_string, style), ms, k + 1, line_string, style)

\* One whole call of highlight_line, as highlight_text makes it: ok is FALSE
\* where the call panics.
highlight_line(line_string, p, style) ==
    LET r == into_regex_ref(p)
    IN IF ~r.ok THEN [ok |-> FALSE, line |-> <<>>]
       ELSE [ok |-> TRUE,
             line |-> ScanTail(Scan(Start, find_iter(r.items, line_string), 1,
                                    line_string, style),
                               line_string)]

\* Variant of NextLineStart: the cursor stays on the newline.
NextLineStartSame(i) == i

\* highlight_text's cursor after the newline at offset i.
NextLineStart(i) == i + 1

(* ----------------------------- the session ------------------------------- *)

Forms == IF entry = "highlighter" \/ ~regex.ok THEN {"str"} ELSE {"str", "regex"}

Init ==
    /\ entry \in Entries
    /\ text \in Strings(MaxLen)
    /\ source \in Patterns
    /\ regex = RegexNew(source)
    /\ highlight_style \in Styles
    /\ pattern = NoPattern
    /\ pc = "idle"
    /\ regex_ref = NoRegex
    /\ matches = <<>>
    /\ mi = 1
    /\ last_index = 0
    /\ highlighted_line = <<>>
    /\ highlighted_text = <<>>
    /\ ni = 1
    /\ compilations = 0
    /\ calls = 0
    /\ prev = NoPrev

\* The caller calls the entry point, with the pattern in one of its forms.
Call ==
    /\ pc \in {"idle", "done"}
    /\ calls < MaxCalls
    /\ \E form \in Forms :
         pattern' = [form |-> form,
                     src |-> IF form = "str" THEN source ELSE <<>>,
                     re |-> IF form = "regex" THEN regex.items ELSE <<>>]
    /\ prev' = (IF pc = "done"
                THEN [form |-> pattern.form, line |-> highlighted_line,
                      text |-> highlighted_text]
                ELSE prev)
    /\ calls' = calls + 1
    /\ pc' = (IF entry = "highlight_text" THEN "split" ELSE "compile")
    /\ regex_ref' = NoRegex
    /\ matches' = <<>>
    /\ mi' = 1
    /\ last_index' = 0
    /\ highlighted_line' = <<>>
    /\ highlighted_text' = <<>>
    /\ ni' = 1
    /\ compilations' = 0
    /\ UNCHANGED session

\* lib.rs highlight_line, lines 45-51: normalise the pattern, collect the matches.
LineCompile ==
    /\ entry = "highlight_line"
    /\ pc = "compile"
    /\ compilations' = compilations + Compiles(pattern)
    /\ LET r == into_regex_ref(pattern)
       IN IF r.ok
          THEN /\ regex_ref' = r
               /\ matches' = find_iter(r.items, text)
               /\ pc' = "scan"
          ELSE /\ pc' = "panic"
               /\ UNCHANGED <<regex_ref, matches>>
    /\ UNCHANGED <<session, pattern, mi, last_index, highlighted_line,
                   highlighted_text, ni, calls, prev>>

\* lib.rs highlight_line, lines 51-57: one iteration of the loop.
LineScan ==
    /\ entry = "highlight_line"
    /\ pc = "scan"
    /\ mi <= Len(matches)
    /\ LET acc == ScanMatch([line |-> highlighted_line, last_index |-> last_index],
                            matches[mi], text, highlight_style)
       IN /\ highlighted_line' = acc.line
          /\ last_index' = acc.last_index
    /\ mi' = mi + 1
    /\ UNCHANGED <<session, pattern, pc, regex_ref, matches, highlighted_text,
                   ni, compilations, calls, prev>>

\* lib.rs highlight_line, lines 59-63: the tail, and the return.
LineTail ==
    /\ entry = "highlight_line"
    /\ pc = "scan"
    /\ mi > Len(matches)
    /\ highlighted_line' =
         ScanTail([line |-> highlighted_line, last_index |-> last_index], text)
    /\ pc' = "done"
    /\ UNCHANGED <<session, pattern, regex_ref, matches, mi, last_index,
                   highlighted_text, ni, compilations, calls, prev>>

\* lib.rs highlight_text, lines 115-122: one iteration, for the next newline.
TextLine ==
    /\ entry = "highlight_text"
    /\ pc = "split"
    /\ ni <= Len(match_indices(text, 0))
    /\ LET i == match_indices(text, 0)[ni]
           r == highlight_line(Slice(text, last_index, i), pattern, highlight_style)
       IN IF r.ok
          THEN /\ highlighted_text' = Append(highlighted_text, r.line)
               /\ last_index' = NextLineStart(i)
               /\ ni' = ni + 1
               /\ pc' = pc
          ELSE /\ pc' = "panic"
               /\ UNCHANGED <<highlighted_text, last_index, ni>>
    /\ compilations' = compilations + Compiles(pattern)
    /\ UNCHANGED <<session, pattern, regex_ref, matches, mi, highlighted_line,
                   calls, prev>>

\* lib.rs highlight_text, lines 124-132: the text after the last newline, and
\* the return.
TextTail ==
    /\ entry = "highlight_text"
    /\ pc = "split"
    /\ ni > Len(match_indices(text, 0))
    /\ IF Len(text) > last_index
       THEN LET r == highlight_line(Slice(text, last_index, Len(text)), pattern,
                                    highlight_style)
            IN /\ compilations' = compilations + Compiles(pattern)
               /\ IF r.ok
                  THEN /\ highlighted_text' = Append(highlighted_text, r.line)
                       /\ pc' = "done"
                  ELSE /\ pc' = "panic"
                       /\ UNCHANGED highlighted_text
       ELSE /\ pc' = "done"
            /\ UNCHANGED <<highlighted_text, compilations>>
    /\ UNCHANGED <<session, pattern, regex_ref, matches, mi, last_index,
                   highlighted_line, ni, calls, prev>>

(* ----------------------- src/src/highlighter.rs -------------------------- *)

\* highlighter.rs highlight_line, line 8 (and the match iterator of line 14).
HlCompile ==
    /\ entry = "highlighter"
    /\ pc = "compile"
    /\ compilations' = compilations + 1
    /\ LET r == RegexNew(pattern.src)
       IN IF r.ok
          THEN /\ regex_ref' = r
               /\ matches' = find_iter(r.items, text)
               /\ pc' = "scan"
          ELSE /\ pc' = "panic"
               /\ UNCHANGED <<regex_ref, matches>>
    /\ UNCHANGED <<session, pattern, mi, last_index, highlighted_line,
                   highlighted_text, ni, calls, prev>>

\* highlighter.rs highlight_line, lines 14-18: one iteration; the slice
\* line[last_index..m.start()] panics when last_index is past m.start().
HlScan ==
    /\ entry = "highlighter"
    /\ pc = "scan"
    /\ mi <= Len(matches)
    /\ LET m == matches[mi]
       IN IF last_index <= m[1]
          THEN /\ highlighted_line' =
                    highlighted_line
                    \o <<Span(Slice(text, last_index, m[1]), highlight_style),
                         Span(Slice(text, m[1], m[2]), highlight_style)>>
               /\ last_index' = m[2] + 1
               /\ mi' = mi + 1
               /\ pc' = pc
          ELSE /\ pc' = "panic"
               /\ UNCHANGED <<highlighted_line, last_index, mi>>
    /\ UNCHANGED <<session, pattern, regex_ref, matches, highlighted_text, ni,
                   compilations, calls, prev>>

\* highlighter.rs highlight_line, lines 20-24: the tail, and the return.
HlTail ==
    /\ entry = "highlighter"
    /\ pc = "scan"
    /\ mi > Len(matches)
    /\ highlighted_line' =
         (IF Len(text) > last_index
          THEN Append(highlighted_line,
                      Span(Slice(text, last_index, Len(text)), highlight_style))
          ELSE highlighted_line)
    /\ pc' = "done"
    /\ UNCHANGED <<session, pattern, regex_ref, matches, mi, last_index,
                   highlighted_text, ni, compilations, calls, prev>>

Next ==
    \/ Call
    \/ LineCompile
    \/ LineScan
    \/ LineTail
    \/ TextLine
    \/ TextTail
    \/ HlCompile
    \/ HlScan
    \/ HlTail

Spec == Init /\ [][Next]_vars

(* ------------------------- what the claims use --------------------------- *)

\* The texts of a Line's fragments, concatenated in order.
RECURSIVE Concat(_)
Concat(line) ==
    IF line = <<>> THEN <<>> ELSE Head(line).content \o Concat(Tail(line))

\* The offsets <<start, end>> in the line that fragment k covers.
FragRange(line, k) ==
    LET start == Len(Concat(SubSeq(line, 1, k - 1)))
    IN <<start, start + Len(line[k].content)>>

MatchSet == {matches[j] : j \in 1..Len(matches)}

\* End of the match before match j (0 before the first).
PrevEnd(j) == IF j = 1 THEN 0 ELSE matches[j - 1][2]

\* The '\n'-delimited sub-lines of s, in order: one more than it has newlines.
RECURSIVE SplitLines(_)
SplitLines(s) ==
    IF \A i \in 1..Len(s) : s[i] # "\n" THEN <<s>>
    ELSE LET i == CHOOSE i \in 1..Len(s) :
                      s[i] = "\n" /\ \A j \in 1..(i - 1) : s[j] # "\n"
         IN <<SubSeq(s, 1, i - 1)>> \o SplitLines(SubSeq(s, i + 1, Len(s)))

CountNewlines(s) == Cardinality({i \in 1..Len(s) : s[i] = "\n"})

\* The current call was handed a raw string that does not compile.
InvalidRaw == pattern.form = "str" /\ ~RegexNew(pattern.src).ok

InLine == entry = "highlight_line" /\ pc \in {"scan", "done"}

(* -------------------------------- claims --------------------------------- *)

\* C1: the fragments highlight_line (lib.rs) returns, concatenated in order,
\* are the line itself; during the scan they are the line up to the cursor.
RoundTrip ==
    InLine =>
        /\ last_index <= Len(text)
        /\ pc = "scan" => Concat(highlighted_line) = Slice(text, 0, last_index)
        /\ pc = "done" => Concat(highlighted_line) = text

\* C1 witness: a finished call whose matches include a zero-width one next to
\* text on both sides of the line.
RoundTripWitness ==
    /\ entry = "highlight_line"
    /\ pc = "done"
    /\ Len(matches) >= 3
    /\ \E j \in 1..Len(matches) : matches[j][1] = matches[j][2]
    /\ \E j \in 1..Len(matches) : matches[j][1] < matches[j][2]
    /\ Len(text) = 3
    /\ Concat(highlighted_line) = text

\* C2 (as stated): with a pattern that compiles, highlight_text returns one
\* Line more than the text has newline characters.
LineCount ==
    (entry = "highlight_text" /\ pc = "done" /\ ~InvalidRaw)
        => Len(highlighted_text) = CountNewlines(text) + 1

StyleCorrect ==
    InLine =>
        /\ \A k \in 1..Len(highlighted_line) :
             LET r == FragRange(highlighted_line, k)
             IN /\ highlighted_line[k].content = Slice(text, r[1], r[2])
                /\ IF r \in MatchSet
                   THEN highlighted_line[k].style = highlight_style
                   ELSE highlighted_line[k].style = Base
        /\ \A j \in 1..(mi - 1) :
             \E k \in 1..Len(highlighted_line) :
                /\ FragRange(highlighted_line, k) = matches[j]
                /\ highlighted_line[k].style = highlight_style

\* C4 witness: a finished line with a gap, a match and a tail.
StyleWitness ==
    /\ entry = "highlight_line"
    /\ pc = "done"
    /\ highlight_style = "Blue"
    /\ Len(matches) = 1
    /\ Len(highlighted_line) = 3
    /\ highlighted_line[1].style = Base
    /\ highlighted_line[2].style = "Blue"
    /\ highlighted_line[3].style = Base

\* C5 (as stated): one call of highlight_text with a raw string compiles the
\* pattern once, however many lines it scans.
CompiledOnce ==
    (entry = "highlight_text" /\ pattern.form = "str") =>
        /\ compilations <= 1
        /\ (pc = "done" /\ highlighted_text # <<>>) => compilations = 1

\* C6: highlight_line (lib.rs) emits an empty fragment only for a zero-width
\* match, and a base fragment only for a non-empty gap or tail, so adjacent
\* matches give consecutive highlighted fragments.
NoEmptyBaseFragment ==
    InLine =>
        /\ \A k \in 1..Len(highlighted_line) :
             highlighted_line[k].content = <<>>
                => FragRange(highlighted_line, k) \in MatchSet
        /\ Len(highlighted_line)
             = (mi - 1)
               + Cardinality({j \in 1..(mi - 1) : matches[j][1] > PrevEnd(j)})
               + (IF pc = "done" /\ Len(text) > last_index THEN 1 ELSE 0)

\* C6 witness: "@a@a" under @\w is two highlighted fragments and nothing else.
AdjacentWitness ==
    /\ entry = "highlight_line"
    /\ pc = "done"
    /\ source = <<"@", "\\", "w">>
    /\ text = <<"@", "a", "@", "a">>
    /\ highlight_style = "Blue"
    /\ highlighted_line = <<Span(<<"@", "a">>, "Blue"), Span(<<"@", "a">>, "Blue")>>

\* C7: with no match, highlight_line (lib.rs) returns the line as one base
\* fragment, or no fragment for the empty line.
NoMatchIdentity ==
    (entry = "highlight_line" /\ pc = "done" /\ matches = <<>>) =>
        highlighted_line = (IF text = <<>> THEN <<>> ELSE <<Span(text, Base)>>)

\* C7 witness: a finished call on a non-empty line without a match.
NoMatchWitness ==
    /\ entry = "highlight_line"
    /\ pc = "done"
    /\ regex_ref.ok
    /\ matches = <<>>
    /\ Len(text) >= 3
    /\ highlight_style = "Blue"
    /\ highlighted_line = <<Span(text, Base)>>

\* C8: a call returns what the previous call of the session returned, whichever
\* of the two forms (raw string, reference to the precompiled Regex) each took.
ReuseEquivalent ==
    (entry \in {"highlight_line", "highlight_text"} /\ pc = "done"
     /\ prev.form # "none") =>
        /\ prev.line = highlighted_line
        /\ prev.text = highlighted_text

\* C8 witness: highlight_text with the precompiled Regex after highlight_text
\* with the raw string, on two lines with a highlighted fragment.
ReuseWitness ==
    /\ entry = "highlight_text"
    /\ pc = "done"
    /\ prev.form = "str"
    /\ pattern.form = "regex"
    /\ highlight_style = "Blue"
    /\ Len(highlighted_text) = 2
    /\ \E k \in 1..2 : \E f \in 1..Len(highlighted_text[k]) :
          /\ highlighted_text[k][f].style = "Blue"
          /\ highlighted_text[k][f].content # <<>>
    /\ prev.text = highlighted_text

\* C9: the k-th Line of highlight_text is highlight_line of the k-th
\* '\n'-delimited sub-line, in input order; no fragment holds a newline, and an
\* empty sub-line gives a Line without text.
LinesAreSubLines ==
    (entry = "highlight_text" /\ pc \in {"split", "done"} /\ ~InvalidRaw) =>
        /\ Len(highlighted_text) <= Len(SplitLines(text))
        /\ \A k \in 1..Len(highlighted_text) :
             /\ highlighted_text[k]
                  = highlight_line(SplitLines(text)[k], pattern, highlight_style).line
             /\ \A f \in 1..Len(highlighted_text[k]) :
                  \A c \in 1..Len(highlighted_text[k][f].content) :
                     highlighted_text[k][f].content[c] # "\n"
             /\ SplitLines(text)[k] = <<>> => Concat(highlighted_text[k]) = <<>>

\* C9 witness: three Lines, the middle one for an empty sub-line.
SubLinesWitness ==
    /\ entry = "highlight_text"
    /\ pc = "done"
    /\ Len(highlighted_text) = 3
    /\ highlighted_text[1] # <<>>
    /\ highlighted_text[2] = <<>>
    /\ highlighted_text[3] # <<>>
    /\ text[2] = "\n"
    /\ text[3] = "\n"

\* C10 (as stated): in both highlight_line variants the cursor is the end of
\* the match scanned last (0 before the first), so it is neither past the next
\* match's start nor past the end of the line, and no slice fails.
CursorAtMatchEnd ==
    (entry \in {"highlight_line", "highlighter"}
     /\ pc \in {"scan", "done", "panic"} /\ regex_ref.ok) =>
        /\ last_index = PrevEnd(mi)
        /\ last_index <= Len(text)
        /\ mi <= Len(matches) => last_index <= matches[mi][1]
        /\ pc # "panic"

=============================================================================
